---- MODULE Spec2Model ----
(***************************************************************************)
(* Model of main.go: a bounded-concurrency HTTP dispatcher.  main reads a  *)
(* list of locations, builds one base request, starts one goroutine        *)
(* (processLocation) per location and waits on a sync.WaitGroup; every     *)
(* goroutine passes a channel-backed Semaphore before it validates its     *)
(* URL, clones the base request, sends it under a 5 s context timeout and  *)
(* prints the response body.                                               *)
(*                                                                         *)
(* Strings are sequences of one-character strings, so that url.Parse and   *)
(* URL.String are computed and not assumed.  The alphabet is letters,      *)
(* '.', ':', '/' and ' ' (no '#', '?', '%', '@', '[' or control bytes), so *)
(* the fragment, query, escape, userinfo and IPv6 branches of url.Parse    *)
(* are not reachable and are not modelled.                                 *)
(***************************************************************************)
EXTENDS Integers, Sequences, FiniteSets, TLC

(***************************************************************************)
(* Bounds of the model.                                                    *)
(***************************************************************************)
\* Number of locations in input.txt (one goroutine per location).
MaxTargets == 2
\* Capacity handed to NewSemaphore.  main.go:133 passes 10; the model keeps
\* the capacity below MaxTargets so that Acquire really blocks.
Limit == 1
\* Longest address handed to ValidateURL when it is checked on its own.
MaxUrlLen == 3

Workers == 1..MaxTargets

(***************************************************************************)
(* Strings of the program.                                                 *)
(***************************************************************************)
RawBar == <<"b","a","r",".","c","o","m">>
RawOther == <<"h","t","t","p",":","/","/","o","t","h","e","r",".","c","o","m">>
RawBad == <<":",":",":",":","n","o","t"," ","a"," ","u","r","l">>
\* The addresses a location of input.txt may carry in the model.
RawInputs == {RawBar, RawOther, RawBad}

\* "https://bar.com": the destination of createBaseRequest and the literal
\* processLocation compares the validated URL with.
Endpoint == <<"h","t","t","p","s",":","/","/","b","a","r",".","c","o","m">>
\* The scheme ValidateURL falls back to.
DefaultScheme == <<"h","t","t","p","s">>

Letters == {"a","b","c","d","e","f","g","h","i","j","k","l","m","n","o","p",
            "q","r","s","t","u","v","w","x","y","z",
            "A","B","C","D","E","F","G","H","I","J","K","L","M","N","O","P",
            "Q","R","S","T","U","V","W","X","Y","Z"}
Upper == <<"A","B","C","D","E","F","G","H","I","J","K","L","M","N","O","P",
           "Q","R","S","T","U","V","W","X","Y","Z">>
Lower == <<"a","b","c","d","e","f","g","h","i","j","k","l","m","n","o","p",
           "q","r","s","t","u","v","w","x","y","z">>

\* strings.ToLower on one byte.
ToLowerChar(c) ==
    IF \E k \in 1..26 : Upper[k] = c
    THEN Lower[CHOOSE k \in 1..26 : Upper[k] = c]
    ELSE c

ToLower(s) == [k \in 1..Len(s) |-> ToLowerChar(s[k])]

\* Index of the first occurrence of c in s, 0 when absent.
IndexOf(s, c) ==
    IF \E k \in 1..Len(s) : s[k] = c
    THEN CHOOSE k \in 1..Len(s) : s[k] = c /\ \A j \in 1..(k-1) : s[j] # c
    ELSE 0

\* Index of the last occurrence of c in s, 0 when absent.
LastIndexOf(s, c) ==
    IF \E k \in 1..Len(s) : s[k] = c
    THEN CHOOSE k \in 1..Len(s) : s[k] = c /\ \A j \in (k+1)..Len(s) : s[j] # c
    ELSE 0

HasPrefix(s, p) == Len(s) >= Len(p) /\ SubSeq(s, 1, Len(p)) = p

Digits == {"0","1","2","3","4","5","6","7","8","9"}

(***************************************************************************)
(* net/url getScheme: scans for the first byte that ends a scheme.         *)
(* Result: [err, scheme, rest].                                            *)
(***************************************************************************)
RECURSIVE getSchemeFrom(_, _)
getSchemeFrom(raw, k) ==
    IF k > Len(raw) THEN [err |-> FALSE, scheme |-> <<>>, rest |-> raw]
    ELSE IF raw[k] \in Letters THEN getSchemeFrom(raw, k + 1)
    ELSE IF raw[k] \in Digits \cup {"+", "-", "."}
         THEN IF k = 1 THEN [err |-> FALSE, scheme |-> <<>>, rest |-> raw]
              ELSE getSchemeFrom(raw, k + 1)
    ELSE IF raw[k] = ":"
         THEN IF k = 1 THEN [err |-> TRUE, scheme |-> <<>>, rest |-> <<>>]
              ELSE [err |-> FALSE, scheme |-> SubSeq(raw, 1, k - 1),
                    rest |-> SubSeq(raw, k + 1, Len(raw))]
    ELSE [err |-> FALSE, scheme |-> <<>>, rest |-> raw]

getScheme(raw) == getSchemeFrom(raw, 1)

\* net/url validOptionalPort: "" or ":" followed by digits.
validOptionalPort(port) ==
    \/ port = <<>>
    \/ /\ port[1] = ":"
       /\ \A k \in 2..Len(port) : port[k] \in Digits

\* Bytes url.unescape accepts unescaped in a host (shouldEscape, encodeHost).
HostChars == Letters \cup Digits \cup {"-", "_", ".", "~", ":"}

\* net/url parseHost on a host without '[': the port check and the
\* host-character check of unescape.
parseHostOk(host) ==
    /\ LET c == LastIndexOf(host, ":")
       IN  c = 0 \/ validOptionalPort(SubSeq(host, c, Len(host)))
    /\ \A k \in 1..Len(host) : host[k] \in HostChars

NoURL == [err |-> TRUE, Scheme |-> <<>>, Opaque |-> <<>>, Host |-> <<>>, Path |-> <<>>,
          OmitHost |-> FALSE]

(***************************************************************************)
(* net/url Parse on the model's alphabet.  Result: [err, Scheme, Opaque,   *)
(* Host, Path, OmitHost].                                                  *)
(***************************************************************************)
Parse(raw) ==
    LET gs == getScheme(raw)
        scheme == ToLower(gs.scheme)
        rest == gs.rest
    IN  IF gs.err THEN NoURL
        ELSE IF ~HasPrefix(rest, <<"/">>)
        THEN IF scheme # <<>>
             THEN [err |-> FALSE, Scheme |-> scheme, Opaque |-> rest,
                   Host |-> <<>>, Path |-> <<>>, OmitHost |-> FALSE]
             ELSE LET slash == IndexOf(rest, "/")
                      segment == IF slash = 0 THEN rest ELSE SubSeq(rest, 1, slash - 1)
                  IN  IF IndexOf(segment, ":") # 0 THEN NoURL
                      ELSE [err |-> FALSE, Scheme |-> scheme, Opaque |-> <<>>,
                            Host |-> <<>>, Path |-> rest, OmitHost |-> FALSE]
        ELSE IF HasPrefix(rest, <<"/", "/">>) /\ (scheme # <<>> \/ ~HasPrefix(rest, <<"/", "/", "/">>))
        THEN LET after == SubSeq(rest, 3, Len(rest))
                 slash == IndexOf(after, "/")
                 authority == IF slash = 0 THEN after ELSE SubSeq(after, 1, slash - 1)
                 path == IF slash = 0 THEN <<>> ELSE SubSeq(after, slash, Len(after))
             IN  IF ~parseHostOk(authority) THEN NoURL
                 ELSE [err |-> FALSE, Scheme |-> scheme, Opaque |-> <<>>,
                       Host |-> authority, Path |-> path, OmitHost |-> FALSE]
        ELSE [err |-> FALSE, Scheme |-> scheme, Opaque |-> <<>>,
              Host |-> <<>>, Path |-> rest, OmitHost |-> scheme # <<>>]

\* URL.EscapedPath on the model's alphabet: a space is written as %20.
RECURSIVE EscapedPath(_)
EscapedPath(p) ==
    IF p = <<>> THEN <<>>
    ELSE (IF Head(p) = " " THEN <<"%", "2", "0">> ELSE <<Head(p)>>) \o EscapedPath(Tail(p))

(***************************************************************************)
(* URL.String for a URL with a non-empty scheme (ValidateURL always sets   *)
(* one before it calls String).  A URL parsed from scheme:/path has        *)
(* OmitHost set and is written without the two slashes of the authority.   *)
(***************************************************************************)
String(u) ==
    LET path == EscapedPath(u.Path)
    IN  u.Scheme \o <<":">> \o
        (IF u.Opaque # <<>> THEN u.Opaque
         ELSE (IF u.OmitHost /\ u.Host = <<>> THEN <<>>
               ELSE (IF u.Host # <<>> \/ u.Path # <<>> THEN <<"/", "/">> ELSE <<>>)
                    \o u.Host)
              \o (IF path # <<>> /\ path[1] # "/" /\ u.Host # <<>> THEN <<"/">> ELSE <<>>)
              \o path)

\* Mutant of ValidateURL: the default scheme is not filled in.
ValidateURLNoDefault(input) ==
    LET u == Parse(input)
    IN  IF u.err THEN [err |-> TRUE, url |-> <<>>]
        ELSE [err |-> FALSE, url |-> String(u)]

(***************************************************************************)
(* ValidateURL (main.go:48-57).  Result: [err, url].                       *)
(***************************************************************************)
ValidateURL(input) ==
    LET u == Parse(input)
    IN  IF u.err THEN [err |-> TRUE, url |-> <<>>]
        ELSE [err |-> FALSE,
              url |-> String(IF u.Scheme = <<>>
                             THEN [u EXCEPT !.Scheme = DefaultScheme]
                             ELSE u)]


(***************************************************************************)
(* Values of the program.                                                  *)
(***************************************************************************)
\* json.Marshal(PayLoad{Data: "example data"}) (main.go:61, 144), as three
\* chunks of bytes.
JsonData == <<"{\"data\":\"example data\",", "\"Buf\":null", "}">>

\* The body a server answers with.
ResponseBody == <<"o", "k">>

NoRequest == [built |-> FALSE, Method |-> "", URL |-> <<>>, ContentType |-> "",
              ContentLength |-> 0]

\* The contents of input.txt: unreadable, not a JSON list of locations, or a
\* list of at most MaxTargets locations.
Files ==
    {[readable |-> FALSE, json |-> FALSE, locs |-> <<>>],
     [readable |-> TRUE, json |-> FALSE, locs |-> <<>>]}
    \cup {[readable |-> TRUE, json |-> TRUE, locs |-> l] :
            l \in UNION {[1..n -> RawInputs] : n \in 0..MaxTargets}}

\* What happened to one goroutine's request: whether it went out; how
\* client.Do ended (a response, a network error, the deadline, or a body
\* shorter than announced); how the read of the response body ended.
NoTraffic == [sent |-> FALSE, send |-> "none", body |-> "none"]

(***************************************************************************)
(* State.                                                                  *)
(***************************************************************************)
VARIABLES
    file,          \* contents of ./input.txt
    mainPc,        \* position of main
    locations,     \* var locations []Location (main.go:127)
    launched,      \* iterations of the loop at main.go:149 that reached go
    wg,            \* counter of the sync.WaitGroup
    sem,           \* len(semaphore.ch): tokens in the buffered channel
    baseRequest,   \* *http.Request of createBaseRequest, without its Body
    bodyBuf,       \* the bytes.Buffer behind baseRequest.Body: its buf
    bodyOff,       \* the bytes.Buffer behind baseRequest.Body: its off
    pc,            \* position of each processLocation goroutine
    req,           \* each goroutine's clone (its Body is baseRequest.Body)
    sentBody,      \* the request body the transport read for each goroutine
    ctxErr,        \* ctx.Err() of each goroutine's timeout context
    res,           \* each goroutine's response body: none, open, closed
    out,           \* lines each goroutine has logged or printed
    net,           \* what the network did to each goroutine's request
    defers,        \* deferred calls each goroutine still owes, last one on top
    cleanup,       \* deferred calls each goroutine has run, in order
    rawURL,        \* argument of a call of ValidateURL on its own
    validated      \* what that call returned

vars == <<file, mainPc, locations, launched, wg, sem, baseRequest, bodyBuf, bodyOff,
          pc, req, sentBody, ctxErr, res, out, net, defers, cleanup, rawURL, validated>>

mainVars == <<file, mainPc, locations, launched>>
workerVars == <<pc, req, sentBody, ctxErr, res, out, net, defers, cleanup>>
templateVars == <<baseRequest, bodyBuf, bodyOff>>
validatorVars == <<rawURL, validated>>

\* ValidateURL has not been called on its own.
NotValidated == [done |-> FALSE, err |-> FALSE, url |-> <<>>]

Init ==
    /\ file \in Files
    /\ mainPc = "readFile"
    /\ locations = <<>>
    /\ launched = 0
    /\ wg = 0
    /\ sem = 0
    /\ baseRequest = NoRequest
    /\ bodyBuf = <<>>
    /\ bodyOff = 0
    /\ pc = [w \in Workers |-> "idle"]
    /\ req = [w \in Workers |-> NoRequest]
    /\ sentBody = [w \in Workers |-> <<>>]
    /\ ctxErr = [w \in Workers |-> "none"]
    /\ res = [w \in Workers |-> "none"]
    /\ out = [w \in Workers |-> <<>>]
    /\ net = [w \in Workers |-> NoTraffic]
    /\ defers = [w \in Workers |-> <<>>]
    /\ cleanup = [w \in Workers |-> <<>>]
    /\ rawURL = <<>>
    /\ validated = NotValidated

(***************************************************************************)
(* main (main.go:120-156).                                                 *)
(***************************************************************************)
\* os.ReadFile (main.go:122-125): log.Fatal when the file cannot be read.
ReadFile ==
    /\ mainPc = "readFile"
    /\ mainPc' = IF file.readable THEN "unmarshal" ELSE "fatal"
    /\ UNCHANGED <<validatorVars, file, locations, launched, wg, sem>>
    /\ UNCHANGED <<templateVars, workerVars>>

\* Mutant of Unmarshal: the error of json.Unmarshal is ignored and main
\* goes on with what was decoded.
UnmarshalIgnoringError ==
    /\ mainPc = "unmarshal"
    /\ locations' = file.locs
    /\ mainPc' = "createBaseRequest"
    /\ UNCHANGED <<validatorVars, file, launched, wg, sem>>
    /\ UNCHANGED <<templateVars, workerVars>>

\* json.Unmarshal (main.go:127-130), then the WaitGroup, the Semaphore and
\* the client (main.go:132-141).
Unmarshal ==
    /\ mainPc = "unmarshal"
    /\ IF file.json
       THEN /\ locations' = file.locs
            /\ mainPc' = "createBaseRequest"
       ELSE /\ mainPc' = "fatal"
            /\ UNCHANGED locations
    /\ UNCHANGED <<validatorVars, file, launched, wg, sem>>
    /\ UNCHANGED <<templateVars, workerVars>>

\* createBaseRequest (main.go:60-74), called at main.go:144.  The body is a
\* bytes.Buffer holding the marshalled payload, read offset 0.
createBaseRequest ==
    /\ mainPc = "createBaseRequest"
    /\ baseRequest' = [built |-> TRUE, Method |-> "POST", URL |-> Endpoint,
                       ContentType |-> "application/json",
                       ContentLength |-> Len(JsonData)]
    /\ bodyBuf' = JsonData
    /\ bodyOff' = 0
    /\ mainPc' = "loop"
    /\ UNCHANGED <<validatorVars, file, locations, launched, wg, sem>>
    /\ UNCHANGED workerVars

\* Mutant of WgAdd: the iteration goes on to the go statement without
\* incrementing the counter.
WgAddSkipped ==
    /\ mainPc = "loop"
    /\ launched < Len(locations)
    /\ mainPc' = "go"
    /\ UNCHANGED <<validatorVars, file, locations, launched, wg, sem>>
    /\ UNCHANGED <<templateVars, workerVars>>

\* wg.Add(1) (main.go:150).
WgAdd ==
    /\ mainPc = "loop"
    /\ launched < Len(locations)
    /\ wg' = wg + 1
    /\ mainPc' = "go"
    /\ UNCHANGED <<validatorVars, file, locations, launched, sem>>
    /\ UNCHANGED <<templateVars, workerVars>>

\* go processLocation(...) (main.go:151): the goroutine exists and has not
\* run yet.
Go ==
    /\ mainPc = "go"
    /\ pc' = [pc EXCEPT ![launched + 1] = "acquire"]
    /\ launched' = launched + 1
    /\ mainPc' = "loop"
    /\ UNCHANGED <<validatorVars, file, locations, wg, sem>>
    /\ UNCHANGED templateVars
    /\ UNCHANGED <<req, sentBody, ctxErr, res, out, net, defers, cleanup>>

\* The range loop is over (main.go:152).
LoopEnd ==
    /\ mainPc = "loop"
    /\ launched = Len(locations)
    /\ mainPc' = "wait"
    /\ UNCHANGED <<validatorVars, file, locations, launched, wg, sem>>
    /\ UNCHANGED <<templateVars, workerVars>>

\* Mutant of WaitCanReturn: Wait returns one Done early.
WaitCanReturnEarly == wg <= 1

\* wg.Wait() can return: the counter is zero.
WaitCanReturn == wg = 0

\* wg.Wait() returns (main.go:154) and main returns: exit status 0.
WaitReturn ==
    /\ mainPc = "wait"
    /\ WaitCanReturn
    /\ mainPc' = "exit"
    /\ UNCHANGED <<validatorVars, file, locations, launched, wg, sem>>
    /\ UNCHANGED <<templateVars, workerVars>>


(***************************************************************************)
(* Semaphore (main.go:18-34): a buffered channel of capacity Limit.        *)
(***************************************************************************)
\* Mutant of CanAcquire: the capacity check is off by one.
CanAcquireOffByOne == sem <= Limit

\* s.ch <- struct{}{} can proceed: the channel is not full.
CanAcquire == sem < Limit

\* <-s.ch can proceed: the channel is not empty.
CanRelease == sem > 0

(***************************************************************************)
(* processLocation (main.go:77-118).                                       *)
(***************************************************************************)
\* ValidateURL on every address of the input, computed once.
Validated == [raw \in RawInputs |-> ValidateURL(raw)]

Push(w, call) == [defers EXCEPT ![w] = Append(@, call)]
Pop(w) == [defers EXCEPT ![w] = SubSeq(@, 1, Len(@) - 1)]
Top(w) == IF defers[w] = <<>> THEN "none" ELSE defers[w][Len(defers[w])]
Ran(w, call) == [cleanup EXCEPT ![w] = Append(@, call)]
Logged(w, kind, data) == [out EXCEPT ![w] = Append(@, [kind |-> kind, data |-> data])]

\* Mutant of DefersOnEntry: the Release is not deferred.
DefersOnEntryNoRelease == <<"wg.Done">>

\* Mutant of DefersOnEntry: wg.Done is not deferred.
DefersOnEntryNoDone == <<"semaphore.Release">>

\* Mutant of DefersOnEntry: wg.Done is deferred after the Release, so it runs
\* before it.
DefersOnEntrySwapped == <<"semaphore.Release", "wg.Done">>

\* The calls deferred by the time Acquire has returned (main.go:78, 80).
DefersOnEntry == <<"wg.Done", "semaphore.Release">>

\* Mutant of Acquire: the address is validated first, and a goroutine with
\* an invalid address logs and returns without touching the semaphore.
AcquireUnlessInvalid(w) ==
    /\ pc[w] = "acquire"
    /\ IF Validated[locations[w]].err
       THEN /\ out' = Logged(w, "InvalidURL", locations[w])
            /\ defers' = [defers EXCEPT ![w] = <<"wg.Done">>]
            /\ pc' = [pc EXCEPT ![w] = "return"]
            /\ UNCHANGED sem
       ELSE /\ CanAcquire
            /\ sem' = sem + 1
            /\ defers' = [defers EXCEPT ![w] = DefersOnEntry]
            /\ pc' = [pc EXCEPT ![w] = "validate"]
            /\ UNCHANGED out
    /\ UNCHANGED <<validatorVars, mainVars, wg, templateVars>>
    /\ UNCHANGED <<req, sentBody, ctxErr, res, net, cleanup>>

\* defer wg.Done(); semaphore.Acquire(); defer semaphore.Release()
\* (main.go:78-80).  Blocks while the channel is full.
Acquire(w) ==
    /\ pc[w] = "acquire"
    /\ CanAcquire
    /\ sem' = sem + 1
    /\ defers' = [defers EXCEPT ![w] = DefersOnEntry]
    /\ pc' = [pc EXCEPT ![w] = "validate"]
    /\ UNCHANGED <<validatorVars, mainVars, wg, templateVars>>
    /\ UNCHANGED <<req, sentBody, ctxErr, res, out, net, cleanup>>

\* Mutant of PassesGate: any URL of the endpoint's scheme passes.
PassesGateByScheme(validatedURL) == HasPrefix(validatedURL, <<"h", "t", "t", "p">>)

\* validatedURL == "https://bar.com" (main.go:89).
PassesGate(validatedURL) == validatedURL = Endpoint

\* req.URL, _ = url.Parse(validatedURL) (main.go:95), kept in string form.
RequestURL(validatedURL) ==
    LET u == Parse(validatedURL)
    IN  IF u.err \/ u.Scheme = <<>> THEN <<>> ELSE String(u)

\* baseRequest.Clone(ctx) with the URL replaced (main.go:94-95).  Clone
\* copies the method, the URL and the header and keeps the Body of the
\* request it clones: the clone reads from baseRequest's bytes.Buffer.
Clone(validatedURL) == [baseRequest EXCEPT !.URL = RequestURL(validatedURL)]

\* Mutant of Validate: the error branch returns without logging.
ValidateSilent(w) ==
    /\ pc[w] = "validate"
    /\ LET v == Validated[locations[w]]
       IN  IF v.err
           THEN /\ pc' = [pc EXCEPT ![w] = "return"]
                /\ UNCHANGED <<ctxErr, defers, req, out>>
           ELSE IF PassesGate(v.url)
           THEN /\ ctxErr' = [ctxErr EXCEPT ![w] = "nil"]
                /\ defers' = Push(w, "cancel")
                /\ req' = [req EXCEPT ![w] = Clone(v.url)]
                /\ pc' = [pc EXCEPT ![w] = "send"]
                /\ UNCHANGED out
           ELSE /\ pc' = [pc EXCEPT ![w] = "return"]
                /\ UNCHANGED <<ctxErr, defers, req, out>>
    /\ UNCHANGED <<validatorVars, mainVars, wg, sem, templateVars>>
    /\ UNCHANGED <<sentBody, res, net, cleanup>>

\* ValidateURL and the branches on its result (main.go:83-95): log and return
\* on an error; return when the URL is not the endpoint; otherwise create the
\* timeout context, defer its cancel and clone the base request.
Validate(w) ==
    /\ pc[w] = "validate"
    /\ LET v == Validated[locations[w]]
       IN  IF v.err
           THEN /\ out' = Logged(w, "InvalidURL", locations[w])
                /\ pc' = [pc EXCEPT ![w] = "return"]
                /\ UNCHANGED <<ctxErr, defers, req>>
           ELSE IF PassesGate(v.url)
           THEN /\ ctxErr' = [ctxErr EXCEPT ![w] = "nil"]
                /\ defers' = Push(w, "cancel")
                /\ req' = [req EXCEPT ![w] = Clone(v.url)]
                /\ pc' = [pc EXCEPT ![w] = "send"]
                /\ UNCHANGED out
           ELSE /\ pc' = [pc EXCEPT ![w] = "return"]
                /\ UNCHANGED <<ctxErr, defers, req, out>>
    /\ UNCHANGED <<validatorVars, mainVars, wg, sem, templateVars>>
    /\ UNCHANGED <<sentBody, res, net, cleanup>>

\* The timer of context.WithTimeout fires (main.go:90) after client.Do has
\* returned an error and before ctx.Err() is read (main.go:99): ctx.Err()
\* becomes DeadlineExceeded.  A timer that fires while client.Do runs is
\* DoDeadline; once a response has been returned processLocation no longer
\* reads the context, and a deadline that ends the read of the body is part
\* of CopyFault.
Expire(w) ==
    /\ ctxErr[w] = "nil"
    /\ pc[w] = "classify"
    /\ ctxErr' = [ctxErr EXCEPT ![w] = "DeadlineExceeded"]
    /\ UNCHANGED <<validatorVars, mainVars, wg, sem, templateVars>>
    /\ UNCHANGED <<pc, req, sentBody, res, out, net, defers, cleanup>>

\* client.Do(req) (main.go:97), first half of the transport's Buffer.Read on
\* req.Body: an empty buffer is Reset and yields nothing; otherwise the
\* unread bytes buf[off:] are copied out.  off is advanced by a later store
\* (TransportAdvance): nothing synchronises the goroutines that read the one
\* buffer, so another Read may run between the copy and the store.
TransportRead(w) ==
    /\ pc[w] = "send"
    /\ IF Len(bodyBuf) <= bodyOff
       THEN /\ bodyBuf' = <<>>
            /\ bodyOff' = 0
            /\ sentBody' = [sentBody EXCEPT ![w] = <<>>]
            /\ pc' = [pc EXCEPT ![w] = "short"]
       ELSE /\ sentBody' = [sentBody EXCEPT ![w] = SubSeq(bodyBuf, bodyOff + 1, Len(bodyBuf))]
            /\ pc' = [pc EXCEPT ![w] = "advance"]
            /\ UNCHANGED <<bodyBuf, bodyOff>>
    /\ UNCHANGED <<validatorVars, mainVars, wg, sem, baseRequest>>
    /\ UNCHANGED <<req, ctxErr, res, out, net, defers, cleanup>>

\* client.Do(req), second half of Buffer.Read: off += n.  The request is on
\* the wire when the body has the announced length.
TransportAdvance(w) ==
    /\ pc[w] = "advance"
    /\ bodyOff' = bodyOff + Len(sentBody[w])
    /\ IF Len(sentBody[w]) = req[w].ContentLength
       THEN /\ pc' = [pc EXCEPT ![w] = "inflight"]
            /\ net' = [net EXCEPT ![w].sent = TRUE]
       ELSE /\ pc' = [pc EXCEPT ![w] = "short"]
            /\ UNCHANGED net
    /\ UNCHANGED <<validatorVars, mainVars, wg, sem, baseRequest, bodyBuf>>
    /\ UNCHANGED <<req, sentBody, ctxErr, res, out, defers, cleanup>>

\* client.Do(req) over HTTP/1.1 with a body shorter than ContentLength: the
\* transport gives up ("http: ContentLength=... with Body length ...") and Do
\* returns the error.
ShortError(w) ==
    /\ pc[w] = "short"
    /\ net' = [net EXCEPT ![w].send = "short"]
    /\ pc' = [pc EXCEPT ![w] = "classify"]
    /\ UNCHANGED <<validatorVars, mainVars, wg, sem, templateVars>>
    /\ UNCHANGED <<req, sentBody, ctxErr, res, out, defers, cleanup>>

\* client.Do(req) over HTTP/2 with a body shorter than ContentLength: the
\* headers and the short body go out as they are.
ShortOnWire(w) ==
    /\ pc[w] = "short"
    /\ pc' = [pc EXCEPT ![w] = "inflight"]
    /\ net' = [net EXCEPT ![w].sent = TRUE]
    /\ UNCHANGED <<validatorVars, mainVars, wg, sem, templateVars>>
    /\ UNCHANGED <<req, sentBody, ctxErr, res, out, defers, cleanup>>

\* client.Do(req) fails in the network (dial, TLS, reset) before the
\* context is done: Do returns the error.
NetError(w) ==
    /\ pc[w] \in {"send", "inflight"}
    /\ ctxErr[w] = "nil"
    /\ net' = [net EXCEPT ![w].send = "error"]
    /\ pc' = [pc EXCEPT ![w] = "classify"]
    /\ UNCHANGED <<validatorVars, mainVars, wg, sem, templateVars>>
    /\ UNCHANGED <<req, sentBody, ctxErr, res, out, defers, cleanup>>

\* Mutant of Respond: res.Body.Close() is not deferred.
RespondNoClose(w) ==
    /\ pc[w] = "inflight"
    /\ ctxErr[w] = "nil"
    /\ net' = [net EXCEPT ![w].send = "response"]
    /\ res' = [res EXCEPT ![w] = "open"]
    /\ pc' = [pc EXCEPT ![w] = "copy"]
    /\ UNCHANGED <<validatorVars, mainVars, wg, sem, templateVars>>
    /\ UNCHANGED <<req, sentBody, ctxErr, out, defers, cleanup>>

\* client.Do(req) returns a response before the context is done; the
\* worker defers res.Body.Close() (main.go:97, 107).
Respond(w) ==
    /\ pc[w] = "inflight"
    /\ ctxErr[w] = "nil"
    /\ net' = [net EXCEPT ![w].send = "response"]
    /\ res' = [res EXCEPT ![w] = "open"]
    /\ defers' = Push(w, "res.Body.Close")
    /\ pc' = [pc EXCEPT ![w] = "copy"]
    /\ UNCHANGED <<validatorVars, mainVars, wg, sem, templateVars>>
    /\ UNCHANGED <<req, sentBody, ctxErr, out, cleanup>>

\* Mutant of DoDeadline: one context serves every goroutine, so its expiry
\* ends the scope of all of them.
DoDeadlineShared(w) ==
    /\ pc[w] \in {"send", "short", "inflight"}
    /\ ctxErr[w] = "nil"
    /\ ctxErr' = [v \in Workers |-> "DeadlineExceeded"]
    /\ net' = [net EXCEPT ![w].send = "deadline"]
    /\ pc' = [pc EXCEPT ![w] = "classify"]
    /\ UNCHANGED <<validatorVars, mainVars, wg, sem, templateVars>>
    /\ UNCHANGED <<req, sentBody, res, out, defers, cleanup>>

\* The timer of context.WithTimeout fires while client.Do is still running
\* (main.go:90, 97): ctx.Err() becomes DeadlineExceeded, the send is
\* abandoned whatever the server would have answered, and Do returns the
\* context's error.
DoDeadline(w) ==
    /\ pc[w] \in {"send", "short", "inflight"}
    /\ ctxErr[w] = "nil"
    /\ ctxErr' = [ctxErr EXCEPT ![w] = "DeadlineExceeded"]
    /\ net' = [net EXCEPT ![w].send = "deadline"]
    /\ pc' = [pc EXCEPT ![w] = "classify"]
    /\ UNCHANGED <<validatorVars, mainVars, wg, sem, templateVars>>
    /\ UNCHANGED <<req, sentBody, res, out, defers, cleanup>>

\* Mutant of IsTimeout: the error is compared with context.Canceled.
IsTimeoutCanceled(w) == ctxErr[w] = "Canceled"

\* ctx.Err() == context.DeadlineExceeded (main.go:99).
IsTimeout(w) == ctxErr[w] = "DeadlineExceeded"

\* The err != nil branch after client.Do (main.go:98-105).
Classify(w) ==
    /\ pc[w] = "classify"
    /\ out' = Logged(w, IF IsTimeout(w) THEN "Timeout" ELSE "SendError", <<>>)
    /\ pc' = [pc EXCEPT ![w] = "return"]
    /\ UNCHANGED <<validatorVars, mainVars, wg, sem, templateVars>>
    /\ UNCHANGED <<req, sentBody, ctxErr, res, net, defers, cleanup>>

\* io.Copy reads the whole body and the worker prints it (main.go:110-116).
\* Bytes that were already received can still be read after the deadline.
CopyOk(w) ==
    /\ pc[w] = "copy"
    /\ net' = [net EXCEPT ![w].body = "ok"]
    /\ out' = Logged(w, "Received", ResponseBody)
    /\ pc' = [pc EXCEPT ![w] = "return"]
    /\ UNCHANGED <<validatorVars, mainVars, wg, sem, templateVars>>
    /\ UNCHANGED <<req, sentBody, ctxErr, res, defers, cleanup>>

\* Mutant of CopyFault: the return after the log is missing and the worker
\* goes on to print what it has read.
CopyFaultPrints(w) ==
    /\ pc[w] = "copy"
    /\ net' = [net EXCEPT ![w].body = "fault"]
    /\ out' = [out EXCEPT ![w] = @ \o <<[kind |-> "BodyReadError", data |-> <<>>],
                                         [kind |-> "Received", data |-> <<>>]>>]
    /\ pc' = [pc EXCEPT ![w] = "return"]
    /\ UNCHANGED <<validatorVars, mainVars, wg, sem, templateVars>>
    /\ UNCHANGED <<req, sentBody, ctxErr, res, defers, cleanup>>

\* io.Copy fails (a read fault, or the context ending the read) and the
\* worker logs the error (main.go:111-114).
CopyFault(w) ==
    /\ pc[w] = "copy"
    /\ net' = [net EXCEPT ![w].body = "fault"]
    /\ out' = Logged(w, "BodyReadError", <<>>)
    /\ pc' = [pc EXCEPT ![w] = "return"]
    /\ UNCHANGED <<validatorVars, mainVars, wg, sem, templateVars>>
    /\ UNCHANGED <<req, sentBody, ctxErr, res, defers, cleanup>>

\* Deferred res.Body.Close() (main.go:107).
DeferredClose(w) ==
    /\ pc[w] = "return"
    /\ Top(w) = "res.Body.Close"
    /\ res' = [res EXCEPT ![w] = "closed"]
    /\ defers' = Pop(w)
    /\ cleanup' = Ran(w, "res.Body.Close")
    /\ UNCHANGED <<validatorVars, mainVars, wg, sem, templateVars>>
    /\ UNCHANGED <<pc, req, sentBody, ctxErr, out, net>>

\* Deferred cancel() (main.go:91): stops the timer; a context whose deadline
\* has passed keeps DeadlineExceeded.
DeferredCancel(w) ==
    /\ pc[w] = "return"
    /\ Top(w) = "cancel"
    /\ ctxErr' = [ctxErr EXCEPT ![w] = IF @ = "nil" THEN "Canceled" ELSE @]
    /\ defers' = Pop(w)
    /\ cleanup' = Ran(w, "cancel")
    /\ UNCHANGED <<validatorVars, mainVars, wg, sem, templateVars>>
    /\ UNCHANGED <<pc, req, sentBody, res, out, net>>

\* Deferred semaphore.Release() (main.go:80, 32-34): receives one token.
Release(w) ==
    /\ pc[w] = "return"
    /\ Top(w) = "semaphore.Release"
    /\ CanRelease
    /\ sem' = sem - 1
    /\ defers' = Pop(w)
    /\ cleanup' = Ran(w, "semaphore.Release")
    /\ UNCHANGED <<validatorVars, mainVars, wg, templateVars>>
    /\ UNCHANGED <<pc, req, sentBody, ctxErr, res, out, net>>

\* Mutant of WgDone: the counter is decremented a second time on the way
\* out.
WgDoneTwice(w) ==
    /\ pc[w] = "return"
    /\ Top(w) = "wg.Done"
    /\ wg' = wg - 2
    /\ defers' = Pop(w)
    /\ cleanup' = Ran(w, "wg.Done")
    /\ pc' = [pc EXCEPT ![w] = "terminated"]
    /\ UNCHANGED <<validatorVars, mainVars, sem, templateVars>>
    /\ UNCHANGED <<req, sentBody, ctxErr, res, out, net>>

\* Deferred wg.Done() (main.go:78): the last deferred call; the goroutine
\* ends.
WgDone(w) ==
    /\ pc[w] = "return"
    /\ Top(w) = "wg.Done"
    /\ wg' = wg - 1
    /\ defers' = Pop(w)
    /\ cleanup' = Ran(w, "wg.Done")
    /\ pc' = [pc EXCEPT ![w] = "terminated"]
    /\ UNCHANGED <<validatorVars, mainVars, sem, templateVars>>
    /\ UNCHANGED <<req, sentBody, ctxErr, res, out, net>>

Worker(w) ==
    \/ Acquire(w)
    \/ Validate(w)
    \/ Expire(w)
    \/ TransportRead(w)
    \/ TransportAdvance(w)
    \/ ShortError(w)
    \/ ShortOnWire(w)
    \/ NetError(w)
    \/ Respond(w)
    \/ DoDeadline(w)
    \/ Classify(w)
    \/ CopyOk(w)
    \/ CopyFault(w)
    \/ DeferredClose(w)
    \/ DeferredCancel(w)
    \/ Release(w)
    \/ WgDone(w)

Next ==
    \/ ReadFile
    \/ Unmarshal
    \/ createBaseRequest
    \/ WgAdd
    \/ Go
    \/ LoopEnd
    \/ WaitReturn
    \/ \E w \in Workers : Worker(w)

Spec == Init /\ [][Next]_vars


(***************************************************************************)
(* Scheduling: every goroutine that can take a step eventually takes one   *)
(* (the Go scheduler runs every runnable goroutine, a send on a channel    *)
(* with room completes), and every send or body read ends: by a response,  *)
(* a network error or the 5 s deadline.                                    *)
(***************************************************************************)
MainStep ==
    \/ ReadFile
    \/ Unmarshal
    \/ createBaseRequest
    \/ WgAdd
    \/ Go
    \/ LoopEnd
    \/ WaitReturn

Fairness ==
    /\ WF_vars(MainStep)
    /\ \A w \in Workers : WF_vars(Worker(w))

FairSpec == Init /\ [][Next]_vars /\ Fairness

(***************************************************************************)
(* ValidateURL on its own: one call on an address drawn from every string  *)
(* of at most MaxUrlLen bytes over a small alphabet (a lower-case letter,  *)
(* an upper-case letter, the delimiters, a space) and the addresses of     *)
(* RawInputs.  main has not started.                                       *)
(***************************************************************************)
UrlAlphabet == {"a", "H", ":", "/", " ", "."}

UrlInputs == RawInputs \cup UNION {[1..n -> UrlAlphabet] : n \in 0..MaxUrlLen}

ValidatorInit ==
    /\ rawURL \in UrlInputs
    /\ validated = NotValidated
    /\ file = [readable |-> FALSE, json |-> FALSE, locs |-> <<>>]
    /\ mainPc = "readFile"
    /\ locations = <<>>
    /\ launched = 0
    /\ wg = 0
    /\ sem = 0
    /\ baseRequest = NoRequest
    /\ bodyBuf = <<>>
    /\ bodyOff = 0
    /\ pc = [w \in Workers |-> "idle"]
    /\ req = [w \in Workers |-> NoRequest]
    /\ sentBody = [w \in Workers |-> <<>>]
    /\ ctxErr = [w \in Workers |-> "none"]
    /\ res = [w \in Workers |-> "none"]
    /\ out = [w \in Workers |-> <<>>]
    /\ net = [w \in Workers |-> NoTraffic]
    /\ defers = [w \in Workers |-> <<>>]
    /\ cleanup = [w \in Workers |-> <<>>]

\* validatedURL, err := ValidateURL(input)
CallValidateURL ==
    /\ ~validated.done
    /\ LET v == ValidateURL(rawURL)
       IN  validated' = [done |-> TRUE, err |-> v.err, url |-> v.url]
    /\ UNCHANGED <<rawURL, mainVars, wg, sem, templateVars, workerVars>>

ValidatorNext == CallValidateURL

ValidatorSpec == ValidatorInit /\ [][ValidatorNext]_vars

(***************************************************************************)
(* Vocabulary of the properties.                                           *)
(***************************************************************************)
Count(seq, x) == Cardinality({k \in DOMAIN seq : seq[k] = x})

\* The goroutine exists (go has run) and has not ended.
Running(w) == pc[w] \notin {"idle", "terminated"}

\* Acquire has returned for w.
Acquired(w) == pc[w] \notin {"idle", "acquire"}

\* w holds a slot of the limiter: it has acquired and not yet released.
Held(w) == Acquired(w) /\ Count(cleanup[w], "semaphore.Release") = 0

Holders == {w \in Workers : Held(w)}

\* Positions in which client.Do is running or the response is being read.
InFlightPcs == {"send", "advance", "short", "inflight", "copy"}

InFlight == {w \in Workers : pc[w] \in InFlightPcs}

Entry(kind, data) == [kind |-> kind, data |-> data]

\* The bytes of the template's body that have not been read.
Unread == IF bodyOff >= Len(bodyBuf) THEN <<>> ELSE SubSeq(bodyBuf, bodyOff + 1, Len(bodyBuf))

\* The template as createBaseRequest returned it.
Template == [built |-> TRUE, Method |-> "POST", URL |-> Endpoint,
             ContentType |-> "application/json", ContentLength |-> Len(JsonData)]

(***************************************************************************)
(* C1.  The number of workers holding a limiter slot, and so the number of *)
(* requests in flight, never exceeds the capacity; the channel holds one   *)
(* token per holder, so an Acquire on a full limiter cannot return before  *)
(* a holder has released.                                                  *)
(***************************************************************************)
C1_LimiterBound ==
    /\ Cardinality(Holders) <= Limit
    /\ Cardinality(InFlight) <= Limit
    /\ sem = Cardinality(Holders)

\* The limiter is full and a launched goroutine is waiting in Acquire.
C1_Witness ==
    /\ Cardinality(Holders) = Limit
    /\ \E w \in Workers : pc[w] = "acquire"

(***************************************************************************)
(* C2.  Every Acquire is followed by exactly one Release of the same       *)
(* worker, on every exit path: a worker never releases more than once nor  *)
(* without having acquired, a terminated worker has released exactly once, *)
(* and a worker that has acquired eventually releases.                     *)
(***************************************************************************)
C2_ReleasePaired ==
    /\ [](\A w \in Workers :
            /\ Count(cleanup[w], "semaphore.Release") <= 1
            /\ Count(cleanup[w], "semaphore.Release") = 1 => Acquired(w)
            /\ pc[w] = "terminated" => Count(cleanup[w], "semaphore.Release") = 1)
    /\ \A w \in Workers :
            Acquired(w) ~> (Count(cleanup[w], "semaphore.Release") = 1)

\* A worker that failed while reading the body has terminated with its slot
\* released.
C2_Witness ==
    \E w \in Workers :
        /\ pc[w] = "terminated"
        /\ out[w] = <<Entry("BodyReadError", <<>>)>>
        /\ Count(cleanup[w], "semaphore.Release") = 1

(***************************************************************************)
(* C3.  wg.Wait returns if and only if every dispatched worker has         *)
(* terminated: main is past Wait only when all locations were dispatched   *)
(* and every goroutine has ended, and when main waits and every goroutine  *)
(* has ended, Wait returns.                                                *)
(***************************************************************************)
AllTerminated ==
    /\ launched = Len(locations)
    /\ \A w \in 1..launched : pc[w] = "terminated"

C3_WaitExact ==
    /\ [](mainPc = "exit" => AllTerminated)
    /\ (mainPc = "wait" /\ AllTerminated) ~> (mainPc = "exit")

\* Wait has returned after more than one goroutine ran.
C3_Witness ==
    /\ mainPc = "exit"
    /\ launched = MaxTargets

(***************************************************************************)
(* C4.  With more targets than limiter slots, every launched worker        *)
(* eventually terminates and the process eventually exits.                 *)
(***************************************************************************)
C4_Terminates ==
    /\ \A w \in Workers : Running(w) ~> (pc[w] = "terminated")
    /\ <>(mainPc \in {"exit", "fatal"})

\* The process exited after more goroutines than slots all sent a request.
C4_Witness ==
    /\ mainPc = "exit"
    /\ launched > Limit
    /\ \A w \in 1..launched : PassesGate(Validated[locations[w]].url) /\ pc[w] = "terminated"


(***************************************************************************)
(* C5.  A worker's outcome depends only on its own target and its own      *)
(* network exchange: a terminated worker logged what its address and the   *)
(* way the network ended its send and its body read call for, and a worker *)
(* that passed the gate put its request on the wire unless its own network *)
(* error or deadline came first.                                           *)
(***************************************************************************)
\* The outputs that the address of w and the network events of w explain.
OwnOutcomes(w) ==
    LET v == Validated[locations[w]]
    IN  IF v.err THEN {<<Entry("InvalidURL", locations[w])>>}
        ELSE IF v.url # Endpoint THEN {<<>>}
        ELSE IF net[w].send = "response"
             THEN IF net[w].body = "ok"
                  THEN {<<Entry("Received", ResponseBody)>>}
                  ELSE {<<Entry("BodyReadError", <<>>)>>}
        ELSE IF net[w].send = "error"
             THEN {<<Entry("SendError", <<>>)>>, <<Entry("Timeout", <<>>)>>}
        ELSE IF net[w].send = "deadline"
             THEN {<<Entry("Timeout", <<>>)>>}
        ELSE {}

C5_FailureLocal ==
    \A b \in 1..launched :
        pc[b] = "terminated" =>
            /\ out[b] \in OwnOutcomes(b)
            /\ (~Validated[locations[b]].err /\ Validated[locations[b]].url = Endpoint)
                  => (net[b].sent \/ net[b].send \in {"error", "deadline"})

(***************************************************************************)
(* C6.  The shared request template is never mutated after it is built:    *)
(* its method, destination, header and the unread content of its body stay *)
(* what createBaseRequest produced.                                        *)
(***************************************************************************)
C6_TemplateImmutable ==
    baseRequest.built =>
        /\ baseRequest = Template
        /\ Unread = JsonData

(***************************************************************************)
(* C7.  Every request a worker sends carries the method POST, the header   *)
(* Content-Type: application/json and the complete serialized body of the  *)
(* template, however many workers have sent before.                        *)
(***************************************************************************)
\* client.Do has read the request body of w and sent or refused the request.
Dispatched(w) == net[w].sent \/ net[w].send = "short"

C7_SentComplete ==
    \A w \in Workers :
        Dispatched(w) =>
            /\ req[w].Method = "POST"
            /\ req[w].ContentType = "application/json"
            /\ sentBody[w] = JsonData

(***************************************************************************)
(* C8.  Domain gate: only a worker whose validated address equals          *)
(* https://bar.com builds or sends a request; a worker whose address       *)
(* validates to something else sends nothing, logs nothing, prints         *)
(* nothing, and still releases its slot and decrements the WaitGroup.      *)
(***************************************************************************)
C8_DomainGate ==
    \A w \in 1..launched :
        LET v == Validated[locations[w]]
        IN  /\ (req[w].built \/ net[w] # NoTraffic \/ ctxErr[w] # "none" \/ pc[w] \in InFlightPcs)
                  => (~v.err /\ v.url = Endpoint)
            /\ (~v.err /\ v.url # Endpoint /\ pc[w] = "terminated")
                  => /\ out[w] = <<>>
                     /\ cleanup[w] = <<"semaphore.Release", "wg.Done">>

\* A worker with a valid address other than the endpoint has terminated.
C8_Witness ==
    \E w \in 1..launched :
        /\ pc[w] = "terminated"
        /\ ~Validated[locations[w]].err
        /\ Validated[locations[w]].url # Endpoint

(***************************************************************************)
(* C9.  A worker whose address fails validation logs InvalidURL, makes no  *)
(* network call, prints no result and decrements the WaitGroup exactly     *)
(* once.                                                                   *)
(***************************************************************************)
C9_InvalidURL ==
    \A w \in 1..launched :
        Validated[locations[w]].err =>
            /\ pc[w] \in {"acquire", "validate", "return", "terminated"}
            /\ ~req[w].built
            /\ net[w] = NoTraffic
            /\ pc[w] \in {"return", "terminated"}
                  => out[w] = <<Entry("InvalidURL", locations[w])>>
            /\ Count(cleanup[w], "wg.Done") = (IF pc[w] = "terminated" THEN 1 ELSE 0)

\* Wait has returned after a worker with an invalid address terminated.
C9_Witness ==
    /\ mainPc = "exit"
    /\ \E w \in 1..launched : Validated[locations[w]].err /\ pc[w] = "terminated"

(***************************************************************************)
(* C10.  A worker whose deadline passes while client.Do is running has its *)
(* send ended, logs Timeout and nothing else, and receives no response: it *)
(* reads no body and prints no result.                                     *)
(***************************************************************************)
C10_Timeout ==
    \A w \in Workers :
        net[w].send = "deadline" =>
            /\ pc[w] \in {"classify", "return", "terminated"}
            /\ res[w] = "none"
            /\ net[w].body = "none"
            /\ pc[w] \in {"return", "terminated"} => out[w] = <<Entry("Timeout", <<>>)>>

\* A worker whose request was on the wire when the deadline passed has
\* terminated.
C10_Witness ==
    \E w \in Workers :
        /\ pc[w] = "terminated"
        /\ net[w].sent
        /\ net[w].send = "deadline"

(***************************************************************************)
(* C11.  A worker whose send failed with a network or transport error that *)
(* its own deadline did not cause logs SendError and never Timeout,        *)
(* whenever the timer fires relative to the failure and to the read of     *)
(* ctx.Err().                                                              *)
(***************************************************************************)
C11_SendErrorNotTimeout ==
    \A w \in Workers :
        (net[w].send \in {"error", "short"} /\ pc[w] \in {"return", "terminated"})
            => out[w] = <<Entry("SendError", <<>>)>>

(***************************************************************************)
(* C12.  As claimed: each worker validates its address before it acquires  *)
(* a limiter slot, so a worker that has acquired has already validated,    *)
(* and a worker whose address is invalid never acquires a slot.            *)
(***************************************************************************)
C12_ValidateFirst ==
    \A w \in 1..launched :
        /\ Acquired(w) => pc[w] # "validate"
        /\ Validated[locations[w]].err => ~Acquired(w)

(***************************************************************************)
(* C12, amended.  Each worker acquires a limiter slot before it validates  *)
(* its address: a worker waiting for a slot has logged nothing, a worker   *)
(* that validates holds a slot and owes its release, and a worker whose    *)
(* address is invalid logs InvalidURL and terminates only after it has     *)
(* acquired a slot and released it.                                        *)
(***************************************************************************)
C12_AcquireFirst ==
    \A w \in 1..launched :
        /\ pc[w] = "acquire" => (out[w] = <<>> /\ defers[w] = <<>>)
        /\ pc[w] = "validate"
              => /\ Count(defers[w], "semaphore.Release") = 1
                 /\ sem >= 1
                 /\ w \in Holders
        /\ (Validated[locations[w]].err /\ pc[w] = "terminated")
              => /\ out[w] = <<Entry("InvalidURL", locations[w])>>
                 /\ cleanup[w] = <<"semaphore.Release", "wg.Done">>

\* A worker with an invalid address holds a slot of the full limiter while
\* another worker waits in Acquire.
C12_Witness ==
    \E w, v \in 1..launched :
        /\ Validated[locations[w]].err
        /\ pc[w] = "validate"
        /\ pc[v] = "acquire"
        /\ sem = Limit

\* The goroutines that have ended.
Terminated == {w \in Workers : pc[w] = "terminated"}

(***************************************************************************)
(* C13.  As claimed: the counter of the Completion Tracker is set to the   *)
(* total number of workers before any worker starts, so whenever a worker  *)
(* is running the increments made so far (the counter plus the decrements  *)
(* of terminated workers) cover every location to be dispatched.           *)
(***************************************************************************)
C13_CounterPreset ==
    (\E w \in Workers : Running(w))
        => wg + Cardinality(Terminated) >= Len(locations)

(***************************************************************************)
(* C13, amended.  The counter is incremented by one for each worker before *)
(* that worker starts: whenever worker w exists, at least w increments     *)
(* have been made, the counter is never below the number of running        *)
(* workers, and it has been incremented for every location by the time     *)
(* the orchestrator waits.                                                 *)
(***************************************************************************)
C13_AddBeforeGo ==
    /\ \A w \in Workers :
          pc[w] # "idle" => wg + Cardinality(Terminated) >= w
    /\ wg >= Cardinality({w \in Workers : Running(w)})
    /\ mainPc = "wait" => wg + Cardinality(Terminated) = Len(locations)

\* A worker is running while the loop has not yet counted the last location.
C13_Witness ==
    /\ \E w \in Workers : Running(w)
    /\ mainPc = "loop"
    /\ launched < Len(locations)
    /\ wg < Len(locations)

(***************************************************************************)
(* C14.  Startup errors are fatal before any dispatch: with an unreadable  *)
(* or malformed input main never gets past reading and parsing, and when   *)
(* the process has exited non-zero no worker was launched, no request was  *)
(* built or sent and nothing was logged by a worker; once a worker has     *)
(* been counted or launched the process never exits non-zero, and it       *)
(* exits 0 only after every worker has terminated, whatever the workers'   *)
(* outcomes.  (The template cannot fail to build from the constant payload *)
(* of main.go:144; the fatal branch of main.go:145-147 is never taken.)    *)
(***************************************************************************)
C14_StartupFatal ==
    /\ (~file.readable \/ ~file.json) => mainPc \in {"readFile", "unmarshal", "fatal"}
    /\ mainPc = "fatal"
          => /\ ~file.readable \/ ~file.json
             /\ launched = 0 /\ wg = 0 /\ sem = 0
             /\ ~baseRequest.built
             /\ \A w \in Workers :
                   pc[w] = "idle" /\ net[w] = NoTraffic /\ ~req[w].built /\ out[w] = <<>>
    /\ (launched > 0 \/ wg > 0) => mainPc # "fatal"
    /\ mainPc = "exit" => (file.readable /\ file.json /\ AllTerminated)

\* The process exited 0 although every one of its workers failed.
C14_Witness ==
    /\ mainPc = "exit"
    /\ launched = MaxTargets
    /\ \A w \in 1..launched :
          /\ Len(out[w]) = 1
          /\ out[w][1].kind \in {"InvalidURL", "Timeout", "SendError", "BodyReadError"}

(***************************************************************************)
(* C15.  Every response a worker receives has its body closed exactly once *)
(* before that worker terminates, whether the body was read or the read    *)
(* failed; a worker whose send ended without a response closes nothing;    *)
(* and no response body is open once wg.Wait has returned.                 *)
(***************************************************************************)
C15_ResponseClosed ==
    /\ \A w \in Workers :
          /\ Count(cleanup[w], "res.Body.Close") <= 1
          /\ res[w] = "closed" <=> Count(cleanup[w], "res.Body.Close") = 1
          /\ res[w] # "none" <=> net[w].send = "response"
          /\ pc[w] = "terminated"
                => IF net[w].send = "response"
                   THEN res[w] = "closed" /\ net[w].body \in {"ok", "fault"}
                   ELSE res[w] = "none" /\ Count(cleanup[w], "res.Body.Close") = 0
    /\ mainPc = "exit" => \A w \in Workers : res[w] # "open"

\* Wait has returned after a worker failed to read the response it had
\* received; the body is closed.
C15_Witness ==
    /\ mainPc = "exit"
    /\ \E w \in Workers :
          /\ net[w].send = "response"
          /\ net[w].body = "fault"
          /\ res[w] = "closed"

(***************************************************************************)
(* C16.  Each worker that passes the domain gate, and no other, creates    *)
(* its own timeout scope; the step in which a scope expires changes        *)
(* nothing of any other worker (its scope, its position, its traffic, its  *)
(* response, its output); a worker that created a scope has cancelled it   *)
(* exactly once when it terminates; and no step of main changes a scope or *)
(* moves a worker that is running.                                         *)
(***************************************************************************)
\* Worker w has passed the domain gate.
PassedGate(w) ==
    /\ pc[w] \notin {"idle", "acquire", "validate"}
    /\ ~Validated[locations[w]].err
    /\ PassesGate(Validated[locations[w]].url)

WrittenScheme == getScheme(rawURL).scheme

\* What holds of every call whatever the scheme: errors, the default scheme
\* and the addresses the specification names.
C17_Common ==
    /\ validated.err <=> Parse(rawURL).err
    /\ (~validated.err /\ WrittenScheme = <<>>)
          => /\ HasPrefix(validated.url, DefaultScheme \o <<":">>)
             /\ (rawURL # <<>> /\ rawURL[1] # "/")
                   => validated.url = DefaultScheme \o <<":", "/", "/">> \o EscapedPath(rawURL)
    /\ rawURL = RawBar => (~validated.err /\ validated.url = Endpoint)
    /\ rawURL = RawOther => (~validated.err /\ validated.url = RawOther)
    /\ rawURL = RawBad => validated.err

C17_SchemeUnchanged ==
    validated.done =>
        /\ C17_Common
        /\ (~validated.err /\ WrittenScheme # <<>>)
              => HasPrefix(validated.url, WrittenScheme \o <<":">>)

(***************************************************************************)
(* C17, amended.  As above, except that an explicit scheme is returned in  *)
(* lower case: unchanged when the input spells it in lower case, and       *)
(* lower-cased otherwise.                                                  *)
(***************************************************************************)
C17_SchemeLowered ==
    validated.done =>
        /\ C17_Common
        /\ (~validated.err /\ WrittenScheme # <<>>)
              => HasPrefix(validated.url, ToLower(WrittenScheme) \o <<":">>)

\* ValidateURL has returned a URL for an input whose scheme has an
\* upper-case letter.
C17_Witness ==
    /\ validated.done
    /\ ~validated.err
    /\ WrittenScheme # ToLower(WrittenScheme)

(***************************************************************************)
(* C18.  As claimed: each worker decrements the counter exactly once, when *)
(* it terminates and not before, so in every reachable state the counter   *)
(* equals the number of workers launched so far minus the number that      *)
(* have terminated, and is never negative.                                 *)
(***************************************************************************)
\* wg.Done has run once for the workers that ended and not at all for the
\* others.
DoneOnTermination ==
    \A w \in Workers :
        Count(cleanup[w], "wg.Done") = (IF pc[w] = "terminated" THEN 1 ELSE 0)

C18_CounterExact ==
    /\ DoneOnTermination
    /\ wg = launched - Cardinality(Terminated)
    /\ wg >= 0

(***************************************************************************)
(* C18, amended.  As above, with the counter one ahead while main is       *)
(* between wg.Add(1) and the go statement of the same iteration: the       *)
(* counter equals the number of wg.Add(1) calls made so far (one per       *)
(* worker launched, and one for the worker about to be launched) minus the *)
(* number of workers that have terminated.                                 *)
(***************************************************************************)
\* Calls of wg.Add(1) so far.
Added == launched + (IF mainPc = "go" THEN 1 ELSE 0)

C18_CounterTracksAdds ==
    /\ DoneOnTermination
    /\ wg = Added - Cardinality(Terminated)
    /\ wg >= 0

\* A worker has terminated and main has counted the next worker without
\* having launched it.
C18_Witness ==
    /\ mainPc = "go"
    /\ Terminated # {}
    /\ wg = launched + 1 - Cardinality(Terminated)

(***************************************************************************)
(* C19.  Each worker reports at most one outcome: a terminated worker that *)
(* the domain gate did not skip has emitted exactly one of InvalidURL,     *)
(* Timeout, SendError, BodyReadError or the received body, a skipped       *)
(* worker none; a worker whose body read failed has logged BodyReadError   *)
(* and printed no result; and a result is printed only after the whole     *)
(* body was read, and is that body.                                        *)
(***************************************************************************)
OutcomeKinds == {"InvalidURL", "Timeout", "SendError", "BodyReadError", "Received"}

\* The address of w is valid and is not the endpoint.
Skipped(w) ==
    /\ ~Validated[locations[w]].err
    /\ ~PassesGate(Validated[locations[w]].url)

C19_OneOutcome ==
    \A w \in 1..launched :
        /\ Len(out[w]) <= 1
        /\ \A k \in 1..Len(out[w]) : out[w][k].kind \in OutcomeKinds
        /\ pc[w] = "terminated" => Len(out[w]) = (IF Skipped(w) THEN 0 ELSE 1)
        /\ net[w].body = "fault" => out[w] = <<Entry("BodyReadError", <<>>)>>
        /\ (\E k \in 1..Len(out[w]) : out[w][k].kind = "Received")
              => /\ net[w].body = "ok"
                 /\ out[w] = <<Entry("Received", ResponseBody)>>
        /\ net[w].body = "ok" => out[w] = <<Entry("Received", ResponseBody)>>

\* A worker whose body read failed and a worker the gate skipped have both
\* terminated.
C19_Witness ==
    \E w, v \in 1..launched :
        /\ pc[w] = "terminated" /\ out[w] = <<Entry("BodyReadError", <<>>)>>
        /\ pc[v] = "terminated" /\ Skipped(v) /\ out[v] = <<>>

(***************************************************************************)
(* C20.  Each worker runs its cleanup in the order close response, cancel  *)
(* timeout scope, release slot, decrement tracker (each step only if the   *)
(* worker got that far), so its slot is released before its decrement,     *)
(* and when wg.Wait has returned the limiter holds no slot.                *)
(***************************************************************************)
\* The deferred calls a worker in its present state runs before it ends.
CleanupOrder(w) ==
    (IF res[w] # "none" THEN <<"res.Body.Close">> ELSE <<>>)
    \o (IF ctxErr[w] # "none" THEN <<"cancel">> ELSE <<>>)
    \o <<"semaphore.Release", "wg.Done">>

C20_ReleaseBeforeDone ==
    /\ \A w \in Workers :
          /\ Len(cleanup[w]) <= Len(CleanupOrder(w))
          /\ cleanup[w] = SubSeq(CleanupOrder(w), 1, Len(cleanup[w]))
          /\ pc[w] = "terminated" => cleanup[w] = CleanupOrder(w)
          /\ Count(cleanup[w], "wg.Done") = 1
                => /\ Count(cleanup[w], "semaphore.Release") = 1
                   /\ ~Held(w)
    /\ mainPc = "exit" => (sem = 0 /\ Holders = {})

\* Wait has returned, the limiter is empty, and a worker ran all four
\* deferred calls.
C20_Witness ==
    /\ mainPc = "exit"
    /\ sem = 0
    /\ \E w \in Workers :
          cleanup[w] = <<"res.Body.Close", "cancel", "semaphore.Release", "wg.Done">>

====
